---- MODULE Spec2Model ----
(***************************************************************************)
(* A model of the price acquisition layer of cotacaoprodutos:              *)
(*   - CepeaAPI (src/utils/api_connector.py): the exchange-rate resolver,  *)
(*     the scraped-table parser, the parquet cache and                     *)
(*     get_historical_prices;                                              *)
(*   - buscar_bcb (src/app.py): the central-bank series fetcher with its   *)
(*     retry loop, alternate-series substitution and lru_cache;            *)
(*   - buscar_ipeadata (src/app.py): the IPEA series fetcher with its      *)
(*     period filter and thirty-day fallback;                              *)
(*   - main (src/main.py): the dashboard's loop over the selected          *)
(*     products around get_processed_data_safe.                            *)
(* Calendar dates are the integers 1..MaxDate (one per day).  Amounts are  *)
(* integers chosen so that every quotient by a rate is exact.              *)
(***************************************************************************)
EXTENDS Integers, Sequences, FiniteSets, TLC

VARIABLES
  today,         \* datetime.now().date()
  rate,          \* the last _get_exchange_rate call: its date, the endpoint's
                 \* answer, the value returned, the requests issued
  product_code,  \* the arguments of the price request under study
  start_date,
  end_date,
  page,          \* what the product's indicator page answers
  cache,         \* data/cepea_cache: file name -> file
  fetch,         \* the last get_historical_prices call: the frame returned,
                 \* the path taken, the requests issued, what was raised
  puts,          \* (product_code, start_date, end_date) -> the frame that
                 \* _save_to_cache last wrote for these arguments
  codigo,        \* the dashboard's selection: the series of the product
  data_inicial,  \* and the period of the sidebar
  data_final,
  frames,        \* the running buscar_bcb calls, outermost first
  memo,          \* the lru_cache of buscar_bcb: arguments -> value returned
  log,           \* the requests buscar_bcb sent in this run of the script
  resposta,      \* the last answer of the central-bank endpoint
  resultado,     \* df of main(): what buscar_bcb returned
  pc,            \* where the script is: "idle", "attempt", "sleep", "done"
  products_cache,\* data/products_list.json
  calls,         \* the get_available_products calls so far: what each
                 \* returned and did
  parquet,       \* one cache file: whether it exists, and its content
  writers,       \* the calls writing that file: where each is in its write
  observed,      \* what the last _load_from_cache of that file got
  ipea,          \* the last buscar_ipeadata call: the endpoint's answer, the
                 \* frame returned, whether it is generated
  selected,      \* selected_product_names of main.py, in selection order
  fetched,       \* the get_processed_data_safe calls of this run, in order
  dfs,           \* the products whose frame main() keeps for presentation
  stage          \* where main() is: "start", "loop", "render", or a stop

cepeaVars == <<today, rate, product_code, start_date, end_date, page, cache, fetch,
               puts>>

bcbVars == <<codigo, data_inicial, data_final, frames, memo, log, resposta,
             resultado, pc>>

catalogVars == <<products_cache, calls>>

writeVars == <<parquet, writers, observed>>

ipeaVars == <<ipea>>

dashVars == <<selected, fetched, dfs, stage>>

vars == <<cepeaVars, bcbVars, catalogVars, writeVars, ipeaVars, dashVars>>

\* ------------------------------------------------------------------ bounds
MaxDate == 2        \* calendar days 1..MaxDate
MaxRows == 2        \* rows of an upstream table or series
MaxRecords == 2     \* records in the 'value' list of the PTAX answer

Dates == 1..MaxDate

\* --------------------------------------------------------- special values
\* A missing value of a DataFrame cell (NaN, NaT, pd.NA, None).
NA == -1
\* The text of a cell that parses neither as a date nor as a number.
BadCell == -2

\* ------------------------------------------------- exchange-rate resolver
\* The fallback the resolver returns for a future date and on any failure.
FallbackRate == 5
\* Buy quotes the PTAX endpoint may publish.
Quotes == {4, 6}

\* What the PTAX endpoint may answer to one GET.
\*   neterr  : requests.get raises (timeout, connection error)
\*   httperr : a 4xx/5xx status, raise_for_status raises
\*   badjson : the body is not JSON, response.json() raises
\*   nokey   : a JSON object without the key 'value' (or an empty object)
\*   json    : {'value': [...]}, each record's cotacaoCompra a quote, absent
\*             (NA) or not a number (BadCell)
QuoteCells == Quotes \cup {NA, BadCell}

RecordLists ==
  UNION {[1..n -> QuoteCells] : n \in 0..MaxRecords}

RateAnswers ==
  {[kind |-> k, value |-> <<>>] : k \in {"neterr", "httperr", "badjson", "nokey"}}
    \cup {[kind |-> "json", value |-> v] : v \in RecordLists}

\* float(data['value'][0]['cotacaoCompra']): a missing key raises KeyError, a
\* non-numeric text raises ValueError; both are caught and give the fallback.
FirstBuyQuote(value) ==
  IF value[1] \in Quotes THEN value[1] ELSE FallbackRate

\* A resolver without the future-date guard of line 60: it asks the endpoint
\* for every date.
GetExchangeRate_NoFutureGuard(date, now, ans) ==
  [rate |-> IF ans.kind = "json" /\ Len(ans.value) > 0
              THEN FirstBuyQuote(ans.value)
              ELSE FallbackRate,
   reqs |-> 1,
   raised |-> "none"]

\* A resolver without the handler of lines 73-75: a failed request or a
\* malformed body leaves the method as an exception.
GetExchangeRate_Propagates(date, now, ans) ==
  IF date > now
    THEN [rate |-> FallbackRate, reqs |-> 0, raised |-> "none"]
  ELSE IF ans.kind \in {"neterr", "httperr", "badjson"}
    THEN [rate |-> NA, reqs |-> 1, raised |-> "Exception"]
  ELSE [rate |-> IF ans.kind = "json" /\ Len(ans.value) > 0
                   THEN FirstBuyQuote(ans.value)
                   ELSE FallbackRate,
        reqs |-> 1,
        raised |-> "none"]

\* _get_exchange_rate(date) at clock `now` when the endpoint answers `ans`:
\* the rate returned, the number of HTTP requests issued and the exception
\* that leaves the method ("none": every exception is caught inside).
GetExchangeRate(date, now, ans) ==
  IF date > now
    THEN [rate |-> FallbackRate, reqs |-> 0, raised |-> "none"]
    ELSE [rate |-> IF ans.kind = "json" /\ Len(ans.value) > 0
                     THEN FirstBuyQuote(ans.value)
                     ELSE FallbackRate,
          reqs |-> 1,
          raised |-> "none"]

\* ------------------------------------------------------------- DataFrames
\* A DataFrame is its set of column names and its rows in order; a row holds
\* NA in a column the frame does not have.  The column 'product' repeats the
\* product code on every row and is kept in `cols` only.
EmptyDF == [cols |-> {}, rows |-> <<>>]

\* DataFrame.empty: no rows (or no columns).
IsEmpty(df) == Len(df.rows) = 0 \/ df.cols = {}

\* Series.isnull().all(): vacuously true of a column without rows.
AllNull(rows, col) == \A i \in 1..Len(rows) : rows[i][col] = NA

\* DataFrame.dropna(subset=[col]): the rows whose `col` is not null, in order.
DropNa(rows, col) ==
  LET Keep(r) == r[col] # NA IN SelectSeq(rows, Keep)

\* The division and the product of the currency conversion (float arithmetic;
\* the amounts of the model divide exactly by every rate).
Div(a, b) == IF a = NA \/ b = NA THEN NA ELSE a \div b
Mul(a, b) == IF a = NA \/ b = NA THEN NA ELSE a * b

\* ---------------------------------------------------------- product table
\* product_info_map: the URL slug and the native currency of each configured
\* product (the indicator id does not reach any result).
product_info_map ==
  [code \in {"BGI", "MIL", "SOJ", "CAF", "SUC"} |->
     [url_name |-> CASE code = "BGI" -> "boi-gordo"
                     [] code = "MIL" -> "milho"
                     [] code = "SOJ" -> "soja"
                     [] code = "CAF" -> "cafe"
                     [] code = "SUC" -> "acucar",
      currency |-> IF code = "CAF" THEN "USD" ELSE "BRL"]]

\* self.product_info_map.get(product_code, {}).get('currency')
CurrencyOf(code) ==
  IF code \in DOMAIN product_info_map
    THEN product_info_map[code].currency
    ELSE "None"

\* ----------------------------------------------------- the indicator page
\* Amounts in local currency and in USD that a page may show.
PriceVals == {60}
UsdVals == {12}

\* One data row of the page's table: the date cell (a day, or text that is
\* no dd/mm/yyyy date), the R$ cell and the US$ cell (an amount, text that is
\* no number, or NA where the table has no such column).
PageRows(hasPrice, hasUsd) ==
  [date : Dates \cup {BadCell},
   price : IF hasPrice THEN PriceVals \cup {BadCell} ELSE {NA},
   usd : IF hasUsd THEN UsdVals \cup {BadCell} ELSE {NA}]

PageTables(hasPrice, hasUsd) ==
  UNION {[1..n -> PageRows(hasPrice, hasUsd)] : n \in 0..MaxRows}

\* What the indicator page may answer to the scraper's GET:
\*   neterr  : requests.get raises a RequestException
\*   httperr : a 4xx/5xx status, raise_for_status raises
\*   notable : a 2xx page on which no table with a date column is identified
\*   table   : the identified table: whether it has an R$ column, whether it
\*             has a US$ column, and its data rows
PageFailures ==
  {[kind |-> k, hasPrice |-> FALSE, hasUsd |-> FALSE, rows |-> <<>>] :
     k \in {"neterr", "httperr", "notable"}}

TablePages(hp, hu) ==
  {[kind |-> "table", hasPrice |-> hp, hasUsd |-> hu, rows |-> t] :
     t \in PageTables(hp, hu)}

Pages ==
  PageFailures \cup TablePages(FALSE, FALSE) \cup TablePages(TRUE, FALSE)
    \cup TablePages(FALSE, TRUE) \cup TablePages(TRUE, TRUE)

\* pd.to_datetime(..., format='%d/%m/%Y', errors='coerce')
ToDatetime(cell) == IF cell \in Dates THEN cell ELSE NA

\* The separators are rewritten and pd.to_numeric(..., errors='coerce') is
\* applied: text that is no number becomes NaN.
ToNumeric(cell) == IF cell = BadCell \/ cell = NA THEN NA ELSE cell

\* Lines 258-267: the typed rows of the table.
TypedRows(resp) ==
  [i \in 1..Len(resp.rows) |->
     [date |-> ToDatetime(resp.rows[i].date),
      price |-> ToNumeric(resp.rows[i].price),
      price_usd_scraped |-> ToNumeric(resp.rows[i].usd)]]

\* Lines 269-276: rows without the crucial price are dropped.  "ok" is FALSE
\* when neither price column holds a value (the scraper returns empty).
DropNullPrices(resp, rows) ==
  IF resp.hasPrice /\ ~AllNull(rows, "price")
    THEN [ok |-> TRUE, rows |-> DropNa(rows, "price")]
  ELSE IF resp.hasUsd /\ ~AllNull(rows, "price_usd_scraped")
    THEN [ok |-> TRUE, rows |-> DropNa(rows, "price_usd_scraped")]
  ELSE [ok |-> FALSE, rows |-> <<>>]

\* Line 280: the rows inside [start_date, end_date], in the page's order.
FilterPeriod(rows, start, end) ==
  LET In(r) == r.date >= start /\ r.date <= end IN SelectSeq(rows, In)

\* Lines 282-300: the final frame of the scraper.
FinalFrame(resp, rows) ==
  LET hasUsdCol == resp.hasUsd /\ ~AllNull(rows, "price_usd_scraped")
  IN [cols |-> {"date", "price", "product"}
                 \cup (IF hasUsdCol THEN {"price_usd"} ELSE {}),
      rows |-> [i \in 1..Len(rows) |->
                  [date |-> rows[i].date,
                   price |-> rows[i].price,
                   price_usd |-> IF hasUsdCol
                                   THEN rows[i].price_usd_scraped ELSE NA,
                   exchange_rate |-> NA]]]

\* A row of generated placeholder data (gerar_dados_exemplo of src/app.py).
SimulatedRow(day) ==
  [date |-> day, price |-> 60, price_usd |-> NA, exchange_rate |-> NA]

\* A scraper that answers a failed request with generated rows for the
\* period, as buscar_cepea of src/app.py does.
ScrapeCepeaData_SimulatedOnFailure(code, start, end, resp) ==
  IF code \notin DOMAIN product_info_map
    THEN [df |-> EmptyDF, reqs |-> 0, err |-> "unconfigured"]
  ELSE IF resp.kind # "table" \/ Len(resp.rows) = 0
    THEN [df |-> [cols |-> {"date", "price", "product"},
                  rows |-> <<SimulatedRow(start)>>],
          reqs |-> 1, err |-> "simulated"]
  ELSE
    LET dated == DropNa(TypedRows(resp), "date")
        priced == DropNullPrices(resp, dated)
        kept == FilterPeriod(priced.rows, start, end)
    IN IF ~priced.ok \/ Len(kept) = 0 \/ ~resp.hasPrice
         THEN [df |-> EmptyDF, reqs |-> 1, err |-> "noprice"]
         ELSE [df |-> FinalFrame(resp, kept), reqs |-> 1, err |-> "none"]

\* A scraper that gives up on the whole table at the first cell that does
\* not parse (errors='raise' instead of errors='coerce').
ScrapeCepeaData_AbortOnBadRow(code, start, end, resp) ==
  IF code \notin DOMAIN product_info_map
    THEN [df |-> EmptyDF, reqs |-> 0, err |-> "unconfigured"]
  ELSE IF resp.kind # "table" \/ Len(resp.rows) = 0
    THEN [df |-> EmptyDF, reqs |-> 1, err |-> "request"]
  ELSE IF \E i \in 1..Len(resp.rows) :
            resp.rows[i].date = BadCell \/ resp.rows[i].price = BadCell
                \/ resp.rows[i].usd = BadCell
    THEN [df |-> EmptyDF, reqs |-> 1, err |-> "unexpected"]
  ELSE
    LET kept == FilterPeriod(TypedRows(resp), start, end)
    IN IF Len(kept) = 0 \/ ~resp.hasPrice
         THEN [df |-> EmptyDF, reqs |-> 1, err |-> "noperiod"]
         ELSE [df |-> FinalFrame(resp, kept), reqs |-> 1, err |-> "none"]

\* _scrape_cepea_data(product_code, start_date, end_date) when the page
\* answers `resp`: the frame returned, the number of GETs issued and the
\* failure that was logged and swallowed ("none" on success).
ScrapeCepeaData(code, start, end, resp) ==
  IF code \notin DOMAIN product_info_map
    THEN [df |-> EmptyDF, reqs |-> 0, err |-> "unconfigured"]
  ELSE IF resp.kind \in {"neterr", "httperr"}
    THEN [df |-> EmptyDF, reqs |-> 1, err |-> "request"]
  ELSE IF resp.kind = "notable" \/ Len(resp.rows) = 0
    THEN [df |-> EmptyDF, reqs |-> 1, err |-> "notable"]
  ELSE
    LET dated == DropNa(TypedRows(resp), "date")
        priced == DropNullPrices(resp, dated)
        kept == FilterPeriod(priced.rows, start, end)
    IN IF ~priced.ok
         THEN [df |-> EmptyDF, reqs |-> 1, err |-> "noprice"]
       ELSE IF Len(kept) = 0
         THEN [df |-> EmptyDF, reqs |-> 1, err |-> "noperiod"]
       ELSE IF ~resp.hasPrice
         \* df_temp[['date', 'price', 'product']] raises KeyError, caught by
         \* the scraper's outer handler
         THEN [df |-> EmptyDF, reqs |-> 1, err |-> "unexpected"]
       ELSE [df |-> FinalFrame(resp, kept), reqs |-> 1, err |-> "none"]

\* ------------------------------------------------------- the parquet cache
\* date.strftime('%Y%m%d'): eight digits; day d of the calendar is the d-th
\* of January 2024.
Strftime(day) ==
  "202401" \o (IF day < 10 THEN "0" \o ToString(day) ELSE ToString(day))

\* Mutation: the file name leaves the end of the period out.
GetCachePath_WithoutEndDate(code, start, end) ==
  "data/cepea_cache/" \o code \o "_" \o Strftime(start) \o ".parquet"

\* _get_cache_path: the file name
\* f"{product_code}_{start:%Y%m%d}_{end:%Y%m%d}.parquet" under cache_dir.
GetCachePath(code, start, end) ==
  "data/cepea_cache/" \o code \o "_" \o Strftime(start) \o "_"
     \o Strftime(end) \o ".parquet"

\* A cache file: whether pd.read_parquet can read it, and the frame it holds.
CacheFile(df) == [readable |-> TRUE, df |-> df]

\* _load_from_cache: None ("found" FALSE) when the file does not exist or
\* cannot be read.
LoadFromCache(files, path) ==
  IF path \in DOMAIN files /\ files[path].readable
    THEN [found |-> TRUE, df |-> files[path].df]
    ELSE [found |-> FALSE, df |-> EmptyDF]

\* _save_to_cache: df.to_parquet(cache_path, index=False); a failed write is
\* printed and swallowed, and leaves the directory as it was.
SaveToCache(files, path, df, writeOk) ==
  IF writeOk THEN (path :> CacheFile(df)) @@ files ELSE files

\* --------------------------------------------------- get_historical_prices
\* What the PTAX endpoint answers to the lookups of one price fetch.
SvcRateAnswers ==
  {[kind |-> "neterr", value |-> <<>>], [kind |-> "json", value |-> <<4>>]}

\* df['date'].apply(lambda x: self._get_exchange_rate(x.date())): one lookup
\* per row, in row order; answers[i] is the endpoint's answer to the i-th.
RatesFor(rows, now, answers) ==
  [i \in 1..Len(rows) |-> GetExchangeRate(rows[i].date, now, answers[i])]

RECURSIVE SumReqs(_, _)
SumReqs(looked, n) ==
  IF n = 0 THEN 0 ELSE looked[n].reqs + SumReqs(looked, n - 1)

\* Line 323: a cached frame of a USD product without any USD value.
CacheIncomplete(code, df) ==
  CurrencyOf(code) = "USD"
    /\ ("price_usd" \notin df.cols \/ AllNull(df.rows, "price_usd"))

\* Lines 319-329: the frame returned on a cache hit.
CacheHit(code, df, now, answers) ==
  IF CacheIncomplete(code, df)
    THEN
      LET looked == RatesFor(df.rows, now, answers)
          repaired == [i \in 1..Len(df.rows) |->
                         [df.rows[i] EXCEPT
                            !.exchange_rate = looked[i].rate,
                            !.price_usd = Div(df.rows[i].price, looked[i].rate)]]
      IN [df |-> [cols |-> df.cols \cup {"exchange_rate", "price_usd"},
                  rows |-> DropNa(repaired, "price_usd")],
          rateReqs |-> SumReqs(looked, Len(looked))]
    ELSE [df |-> df, rateReqs |-> 0]

\* Lines 338-367: the currency legs of a freshly scraped frame.  "raised" is
\* the exception the statements raise (caught by the method's handler).
\* When line 344 has dropped every row, df['date'].apply(...) of the empty
\* datetime column is an empty datetime column, and dividing or multiplying
\* a price column by it raises TypeError.
Reconcile(code, scraped, now, answers) ==
  LET rows == DropNa(DropNa(scraped.rows, "date"), "price")
      looked == RatesFor(rows, now, answers)
      reqs == SumReqs(looked, Len(looked))
      cur == CurrencyOf(code)
  IN IF cur = "BRL"
        /\ ("price_usd" \notin scraped.cols \/ AllNull(rows, "price_usd"))
       THEN IF rows = <<>>
              THEN [df |-> EmptyDF, rateReqs |-> 0, raised |-> "TypeError"]
              ELSE
            [df |-> [cols |-> scraped.cols \cup {"exchange_rate", "price_usd"},
                     rows |-> [i \in 1..Len(rows) |->
                                 [rows[i] EXCEPT
                                    !.exchange_rate = looked[i].rate,
                                    !.price_usd = Div(rows[i].price, looked[i].rate)]]],
             rateReqs |-> reqs, raised |-> "none"]
     ELSE IF cur = "USD"
        /\ ("price" \notin scraped.cols \/ AllNull(rows, "price"))
       THEN IF "price_usd" \notin scraped.cols
              THEN [df |-> EmptyDF, rateReqs |-> reqs, raised |-> "KeyError"]
            ELSE IF rows = <<>>
              THEN [df |-> EmptyDF, rateReqs |-> 0, raised |-> "TypeError"]
              ELSE [df |-> [cols |-> scraped.cols \cup {"exchange_rate"},
                            rows |-> DropNa(
                              [i \in 1..Len(rows) |->
                                 [rows[i] EXCEPT
                                    !.exchange_rate = looked[i].rate,
                                    !.price = Mul(rows[i].price_usd, looked[i].rate)]],
                              "price")],
                    rateReqs |-> reqs, raised |-> "none"]
     ELSE IF "price_usd" \in scraped.cols
       THEN [df |-> [cols |-> scraped.cols \cup {"exchange_rate"},
                     rows |-> [i \in 1..Len(rows) |->
                                 [rows[i] EXCEPT !.exchange_rate = looked[i].rate]]],
             rateReqs |-> reqs, raised |-> "none"]
     ELSE [df |-> [cols |-> scraped.cols, rows |-> rows],
           rateReqs |-> 0, raised |-> "none"]

\* Mutation: a scrape that returned nothing leaves an empty entry behind.
ScrapeAndStore_SavesEmpty(code, start, end, now, files, resp, answers, writeOk) ==
  LET path == GetCachePath(code, start, end)
      scraped == ScrapeCepeaData(code, start, end, resp)
  IN IF IsEmpty(scraped.df)
       THEN [result |-> EmptyDF,
             files |-> SaveToCache(files, path, EmptyDF, writeOk),
             path |-> "miss",
             cacheReads |-> 1, scrapeReqs |-> scraped.reqs, rateReqs |-> 0,
             saved |-> FALSE,
             swallowed |-> scraped.err, raised |-> "none"]
       ELSE
         LET rec == Reconcile(code, scraped.df, now, answers)
         IN IF rec.raised # "none"
              THEN [result |-> EmptyDF, files |-> files, path |-> "miss",
                    cacheReads |-> 1, scrapeReqs |-> scraped.reqs,
                    rateReqs |-> rec.rateReqs, saved |-> FALSE,
                    swallowed |-> rec.raised, raised |-> "none"]
              ELSE [result |-> rec.df,
                    files |-> SaveToCache(files, path, rec.df, writeOk),
                    path |-> "miss",
                    cacheReads |-> 1, scrapeReqs |-> scraped.reqs,
                    rateReqs |-> rec.rateReqs, saved |-> writeOk,
                    swallowed |-> IF writeOk THEN "none" ELSE "write",
                    raised |-> "none"]

\* Lines 331-370, the path without a usable cache entry: scrape, reconcile
\* the currencies, save, return.  A failed save is printed inside
\* _save_to_cache and goes no further ("swallowed").
ScrapeAndStore(code, start, end, now, files, resp, answers, writeOk) ==
  LET path == GetCachePath(code, start, end)
      scraped == ScrapeCepeaData(code, start, end, resp)
  IN IF IsEmpty(scraped.df)
       THEN [result |-> EmptyDF, files |-> files, path |-> "miss",
             cacheReads |-> 1, scrapeReqs |-> scraped.reqs, rateReqs |-> 0,
             saved |-> FALSE,
             swallowed |-> scraped.err, raised |-> "none"]
       ELSE
         LET rec == Reconcile(code, scraped.df, now, answers)
         IN IF rec.raised # "none"
              THEN [result |-> EmptyDF, files |-> files, path |-> "miss",
                    cacheReads |-> 1, scrapeReqs |-> scraped.reqs,
                    rateReqs |-> rec.rateReqs, saved |-> FALSE,
                    swallowed |-> rec.raised, raised |-> "none"]
              ELSE [result |-> rec.df,
                    files |-> SaveToCache(files, path, rec.df, writeOk),
                    path |-> "miss",
                    cacheReads |-> 1, scrapeReqs |-> scraped.reqs,
                    rateReqs |-> rec.rateReqs, saved |-> writeOk,
                    swallowed |-> IF writeOk THEN "none" ELSE "write",
                    raised |-> "none"]

\* Mutation: the page is requested before the cache is looked at.
GetHistoricalPrices_ScrapesFirst(code, start, end, now, files, resp, answers, writeOk) ==
  LET cached == LoadFromCache(files, GetCachePath(code, start, end))
      scraped == ScrapeCepeaData(code, start, end, resp)
  IN IF cached.found /\ ~IsEmpty(cached.df)
       THEN LET hit == CacheHit(code, cached.df, now, answers)
            IN [result |-> hit.df, files |-> files, path |-> "hit",
                cacheReads |-> 1, scrapeReqs |-> scraped.reqs,
                rateReqs |-> hit.rateReqs, saved |-> FALSE,
                swallowed |-> "none", raised |-> "none"]
       ELSE ScrapeAndStore(code, start, end, now, files, resp, answers, writeOk)

\* Mutation: a failed save fails the fetch.
GetHistoricalPrices_WriteFailureFails(code, start, end, now, files, resp, answers, writeOk) ==
  LET cached == LoadFromCache(files, GetCachePath(code, start, end))
      fresh == ScrapeAndStore(code, start, end, now, files, resp, answers, writeOk)
  IN IF cached.found /\ ~IsEmpty(cached.df)
       THEN LET hit == CacheHit(code, cached.df, now, answers)
            IN [result |-> hit.df, files |-> files, path |-> "hit",
                cacheReads |-> 1, scrapeReqs |-> 0, rateReqs |-> hit.rateReqs,
                saved |-> FALSE,
                swallowed |-> "none", raised |-> "none"]
       ELSE IF fresh.swallowed = "write"
              THEN [fresh EXCEPT !.result = EmptyDF, !.raised = "OSError"]
              ELSE fresh

\* Mutation: any entry that can be read is returned, rows or no rows.
GetHistoricalPrices_ReturnsEmptyEntry(code, start, end, now, files, resp, answers, writeOk) ==
  LET cached == LoadFromCache(files, GetCachePath(code, start, end))
  IN IF cached.found
       THEN LET hit == CacheHit(code, cached.df, now, answers)
            IN [result |-> hit.df, files |-> files, path |-> "hit",
                cacheReads |-> 1, scrapeReqs |-> 0, rateReqs |-> hit.rateReqs,
                saved |-> FALSE,
                swallowed |-> "none", raised |-> "none"]
       ELSE ScrapeAndStore(code, start, end, now, files, resp, answers, writeOk)

\* get_historical_prices(product_code, start_date, end_date) at clock `now`,
\* with the cache directory `files`, the page answering `resp`, the PTAX
\* endpoint answering `answers`, and the cache write succeeding or not:
\* the frame returned, the cache directory afterwards, the path taken, the
\* requests issued, and the exception that leaves the method.
GetHistoricalPrices(code, start, end, now, files, resp, answers, writeOk) ==
  LET cached == LoadFromCache(files, GetCachePath(code, start, end))
  IN IF cached.found /\ ~IsEmpty(cached.df)
       THEN LET hit == CacheHit(code, cached.df, now, answers)
            IN [result |-> hit.df, files |-> files, path |-> "hit",
                cacheReads |-> 1, scrapeReqs |-> 0, rateReqs |-> hit.rateReqs,
                saved |-> FALSE,
                swallowed |-> "none", raised |-> "none"]
       ELSE ScrapeAndStore(code, start, end, now, files, resp, answers, writeOk)

\* -------------------------------------------------------------- buscar_bcb
\* The series the dashboard asks the central bank for (API_PRODUTOS): one
\* with an alternate code, a second with an alternate, one without.
BcbCodigos == {"7461", "1", "21562"}

\* Mutation: the alternate of "7461" has "7461" as its own alternate.
codigos_alternativos_Cyclic ==
  ("7461" :> "7811") @@ ("7811" :> "7461") @@ ("1" :> "7813") @@ ("2" :> "7825")

codigos_alternativos == ("7461" :> "7811") @@ ("1" :> "7813") @@ ("2" :> "7825")

max_retries == 3

\* The answers of api.bcb.gov.br to one GET: no answer at all, 404 with the
\* body {"erro": "Value(s) not found"}, 404 with another JSON body, a 5xx, a
\* body that is not JSON, and 200 with a list of {data, valor} records.
SeriesVals == {7}
SeriesRecords == [data : Dates \cup {BadCell}, valor : SeriesVals \cup {BadCell}]
SeriesLists == UNION {[1..n -> SeriesRecords] : n \in 0..MaxRows}
BcbAnswers ==
  {[kind |-> k, dados |-> <<>>] :
      k \in {"neterr", "vnf404", "other404", "http500", "badjson"}}
    \cup {[kind |-> "json200", dados |-> d] : d \in SeriesLists}

NoAnswer == [kind |-> "none", dados |-> <<>>]

\* df.sort_values('data'): ascending by date.  Records of the same date are
\* equal here (one valor), so their relative order does not show.
RECURSIVE SortValues(_)
SortValues(rows) ==
  IF rows = <<>> THEN <<>>
  ELSE LET m == CHOOSE i \in 1..Len(rows) :
                  /\ \A j \in 1..Len(rows) : rows[i].data <= rows[j].data
                  /\ \A j \in 1..(i - 1) : rows[j].data > rows[i].data
           rest == [k \in 1..(Len(rows) - 1) |-> IF k < m THEN rows[k] ELSE rows[k + 1]]
       IN <<rows[m]>> \o SortValues(rest)

\* The processing of a non-empty 200 body: valor renamed to preco and
\* coerced, the rows without a number dropped, the rest sorted by date.
ProcessarBcb(dados) ==
  SortValues(SelectSeq([i \in 1..Len(dados) |->
                          [data |-> dados[i].data,
                           preco |-> ToNumeric(dados[i].valor)]],
                       LAMBDA r : r.preco # NA))

\* gerar_dados_exemplo(data_inicial, data_final, codigo): one row per day of
\* the period, priced at random around the base price 100 of an unlisted
\* name.  The set of frames it can return.
SimPrices == {99, 101}
gerar_dados_exemplo(di, dfin) ==
  {[i \in 1..(dfin - di + 1) |-> [data |-> di + i - 1, preco |-> f[i]]] :
      f \in [1..(dfin - di + 1) -> SimPrices]}

\* Mutation: a "Value(s) not found" answer is never answered with the
\* alternate series.
HandleAnswer_NoAlternate(cod, attempt, resp, jsonErrIsRequestErr) ==
  LET transient == IF attempt = max_retries - 1 THEN "simulate" ELSE "sleep"
  IN CASE resp.kind \in {"neterr", "other404", "http500"} -> transient
       [] resp.kind = "badjson" ->
            IF jsonErrIsRequestErr THEN transient ELSE "simulate"
       [] resp.kind = "json200" /\ resp.dados # <<>>
            /\ (\A i \in 1..Len(resp.dados) : resp.dados[i].data # BadCell)
            /\ ProcessarBcb(resp.dados) # <<>> -> "return"
       [] OTHER -> "simulate"

\* What one pass of the retry loop does with the answer to its GET:
\*   "sleep"     a requests.exceptions.RequestException before the last
\*               attempt: time.sleep and the next attempt;
\*   "alternate" return buscar_bcb(codigos_alternativos[codigo], ...);
\*   "return"    return the processed rows;
\*   "simulate"  return gerar_dados_exemplo(...).
\* response.json() on a body that is not JSON raises an error that is a
\* RequestException in some releases of requests and a plain ValueError in
\* others (jsonErrIsRequestErr).
HandleAnswer(cod, attempt, resp, jsonErrIsRequestErr) ==
  LET transient == IF attempt = max_retries - 1 THEN "simulate" ELSE "sleep"
  IN CASE resp.kind = "neterr" -> transient
       [] resp.kind = "vnf404" ->
            IF cod \in DOMAIN codigos_alternativos THEN "alternate"
                                                   ELSE "simulate"
       [] resp.kind \in {"other404", "http500"} -> transient
       [] resp.kind = "badjson" ->
            IF jsonErrIsRequestErr THEN transient ELSE "simulate"
       [] resp.kind = "json200" ->
            IF resp.dados = <<>> THEN "simulate"
            ELSE IF \E i \in 1..Len(resp.dados) : resp.dados[i].data = BadCell
              THEN "simulate"
            ELSE IF ProcessarBcb(resp.dados) = <<>> THEN "simulate"
            ELSE "return"

\* The lru_cache key of a call.
MemoKey(frame) == <<frame.codigo, frame.data_inicial, frame.data_final>>

NoMemo == <<>>

\* The script before main() runs, with the sidebar left alone.
BcbNotStarted ==
  /\ codigo = "7461"
  /\ data_inicial = 1
  /\ data_final = 1
  /\ frames = <<>>
  /\ memo = NoMemo
  /\ log = <<>>
  /\ resposta = NoAnswer
  /\ resultado = <<>>
  /\ pc = "idle"

\* ---------------------------------------------------------- buscar_ipeadata
\* A day more than 30 days before any reading of the clock.
OldDay == 0 - 40

\* timedelta(days=30) of line 220.
FallbackDays == 30

\* What www.ipeadata.gov.br answers to the GET of line 191: no answer, an
\* error status, a body that is no JSON, a JSON object without 'value', or
\* {'value': [...]} with records of VALDATA (a day of the calendar, an old
\* day, or text that is no date) and VALVALOR (a number or null).
IpeaRecords == [data : Dates \cup {OldDay, BadCell}, valor : SeriesVals \cup {NA}]
IpeaLists == UNION {[1..n -> IpeaRecords] : n \in 0..MaxRows}
IpeaAnswers ==
  {[kind |-> k, dados |-> <<>>] : k \in {"neterr", "httperr", "badjson", "novalue"}}
    \cup {[kind |-> "json", dados |-> d] : d \in IpeaLists}

\* Lines 205-212: the columns renamed and converted, the rows without a
\* number dropped.
IpeaRows(dados) ==
  SelectSeq([i \in 1..Len(dados) |->
               [data |-> dados[i].data, preco |-> ToNumeric(dados[i].valor)]],
            LAMBDA r : r.preco # NA)

\* Lines 215-216: df.loc[mask] for the requested period.
IpeaInPeriod(rows, di, dfin) ==
  SelectSeq(rows, LAMBDA r : r.data >= di /\ r.data <= dfin)

\* Lines 220-221: df.loc[mask] for the last 30 days.
IpeaRecent(rows, now) ==
  SelectSeq(rows, LAMBDA r : r.data >= now - FallbackDays)

\* buscar_ipeadata(codigo, data_inicial, data_final) at clock `now` when the
\* endpoint answers `resp`: the frames it can return, and whether the frame
\* comes from gerar_dados_exemplo (every exception ends in the handler of
\* lines 227-229).  The 30-day mask of line 220 is applied to df, which line
\* 216 has already replaced by the rows of the period.
BuscarIpeadata(resp, di, dfin, now) ==
  LET failed == {[df |-> s, simulated |-> TRUE] : s \in gerar_dados_exemplo(di, dfin)}
  IN IF resp.kind # "json" \/ resp.dados = <<>>
          \/ (\E i \in 1..Len(resp.dados) : resp.dados[i].data = BadCell)
       THEN failed
       ELSE
         LET rows == IpeaRows(resp.dados)
             inPeriod == IpeaInPeriod(rows, di, dfin)
             recent == IpeaRecent(inPeriod, now)
         IN IF inPeriod # <<>>
              THEN {[df |-> SortValues(inPeriod), simulated |-> FALSE]}
            ELSE IF recent # <<>>
              THEN {[df |-> SortValues(recent), simulated |-> FALSE]}
            ELSE failed

NoIpea == [called |-> FALSE, resp |-> NoAnswer, df |-> <<>>, simulated |-> FALSE]

IpeaNotStarted == ipea = NoIpea

\* ------------------------------------------------------ the product catalog
\* The order of product_info_map (a dict keeps insertion order).
ProductOrder == <<"BGI", "MIL", "SOJ", "CAF", "SUC">>

\* info["url_name"].replace("-", " ").title()
TitleOf(url_name) ==
  CASE url_name = "boi-gordo" -> "Boi Gordo"
    [] url_name = "milho" -> "Milho"
    [] url_name = "soja" -> "Soja"
    [] url_name = "cafe" -> "Cafe"
    [] url_name = "acucar" -> "Acucar"

\* _get_default_unit
DefaultUnit(code) ==
  CASE code = "BGI" -> "@"
    [] code \in {"MIL", "SOJ", "CAF"} -> "sc 60kg"
    [] code = "SUC" -> "sc 50kg"
    [] OTHER -> "unidade"

\* Lines 87-94: one descriptor per entry of product_info_map, in its order.
BuildProductsList ==
  [i \in 1..Len(ProductOrder) |->
     [code |-> ProductOrder[i],
      name |-> TitleOf(product_info_map[ProductOrder[i]].url_name),
      unit |-> DefaultUnit(ProductOrder[i]),
      currency |-> product_info_map[ProductOrder[i]].currency]]

\* data/products_list.json: absent, holding the JSON text of a list, or
\* holding text that json.load rejects (a write that stopped part-way).
AbsentStore == [state |-> "absent", list |-> <<>>]
CorruptStore == [state |-> "corrupt", list |-> <<>>]
StoredList(list) == [state |-> "complete", list |-> list]

\* What the file system does to the write of lines 97-98: the list is
\* written, open() raises, or the write stops after the file was created.
WriteResults == {"ok", "noopen", "partial"}

\* Mutation: the persisted copy is never read; every call builds and writes.
GetAvailableProducts_NeverReads(store, readOk, written) ==
  CASE written = "ok" ->
         [ret |-> BuildProductsList, store |-> StoredList(BuildProductsList),
          found |-> store.state # "absent", wrote |-> TRUE, failed |-> FALSE]
    [] written = "noopen" ->
         [ret |-> <<>>, store |-> store,
          found |-> store.state # "absent", wrote |-> FALSE, failed |-> TRUE]
    [] written = "partial" ->
         [ret |-> <<>>, store |-> CorruptStore,
          found |-> store.state # "absent", wrote |-> TRUE, failed |-> TRUE]

\* get_available_products() against the store: the list returned, the store
\* afterwards, whether the file existed, whether the method wrote to it, and
\* whether an exception reached the handler of lines 102-104.
GetAvailableProducts(store, readOk, written) ==
  IF store.state # "absent"
    THEN IF store.state = "complete" /\ readOk
           THEN [ret |-> store.list, store |-> store,
                 found |-> TRUE, wrote |-> FALSE, failed |-> FALSE]
           ELSE [ret |-> <<>>, store |-> store,
                 found |-> TRUE, wrote |-> FALSE, failed |-> TRUE]
    ELSE CASE written = "ok" ->
                [ret |-> BuildProductsList, store |-> StoredList(BuildProductsList),
                 found |-> FALSE, wrote |-> TRUE, failed |-> FALSE]
           [] written = "noopen" ->
                [ret |-> <<>>, store |-> store,
                 found |-> FALSE, wrote |-> FALSE, failed |-> TRUE]
           [] written = "partial" ->
                [ret |-> <<>>, store |-> CorruptStore,
                 found |-> FALSE, wrote |-> TRUE, failed |-> TRUE]

\* The catalog before any listing, with no store on disk.
CatalogNotStarted ==
  /\ products_cache = AbsentStore
  /\ calls = <<>>

\* ------------------------------------------------- the dashboard (main.py)
\* The names of the sidebar's multiselect: [p['name'] for p in products].
ProductNames == {BuildProductsList[k].name : k \in 1..Len(BuildProductsList)}

\* product_name_to_info_map.get(product_name): the descriptor, or None.
InfoOf(name) ==
  IF name \in ProductNames
    THEN CHOOSE p \in {BuildProductsList[k] : k \in 1..Len(BuildProductsList)} :
           p.name = name
    ELSE [code |-> "None", name |-> name, unit |-> "None", currency |-> "None"]

\* What happens inside get_processed_data_safe:
\*   raises          : CepeaAPI(), the fetch or the processing raises
\*   raw_empty       : get_historical_prices returns an empty frame
\*   processed_empty : prepare_analysis_data returns a frame without rows
\*   no_date         : the processed frame has no 'date' column
\*   rows            : a processed frame with rows
FetchOutcomes == {"raises", "raw_empty", "processed_empty", "no_date", "rows"}

\* Mutation: without the try/except of lines 66 and 95-97 the exception
\* leaves the function.
GetProcessedDataSafe_Propagates(outcome) ==
  [empty |-> outcome # "rows",
   raised |-> IF outcome = "raises" THEN "Exception" ELSE "none"]

\* get_processed_data_safe(product_code, start_date, end_date): whether the
\* frame returned is empty, and the exception that leaves the function.
GetProcessedDataSafe(outcome) ==
  [empty |-> outcome # "rows", raised |-> "none"]

DashNotStarted ==
  /\ selected = <<>>
  /\ fetched = <<>>
  /\ dfs = <<>>
  /\ stage = "start"

\* ------------------------------------------- one cache file, several calls
\* Calls of get_historical_prices for the same arguments that overlap in
\* time (sessions of the dashboard are separate threads) write the same
\* cache file with df.to_parquet(cache_path), which opens the path for
\* writing, streams the data and ends with the footer; nothing in the code
\* serialises them.  The text of a frame is MaxBlocks data blocks followed by
\* the footer; every writer's frame has the same size.
Writers == {1, 2}
MaxBlocks == 2

\* A byte range nobody wrote after the last truncation.
Hole == 0

NoFile == [exists |-> FALSE, bytes |-> <<>>]

\* The file after `who` has written its next block at its own offset.
WriteAt(bytes, off, who) ==
  [k \in 1..(IF Len(bytes) > off + 1 THEN Len(bytes) ELSE off + 1) |->
     IF k = off + 1 THEN who
     ELSE IF k <= Len(bytes) THEN bytes[k] ELSE Hole]

\* What _load_from_cache gets.
NoEntry == [found |-> FALSE, blocks |-> <<>>]
Entry(blocks) == [found |-> TRUE, blocks |-> blocks]

\* The frame writer `who` puts.
Payload(who) == [k \in 1..MaxBlocks |-> who]

\* _load_from_cache on the file as it is now: None when there is no file or
\* pd.read_parquet raises (no footer yet, a hole).  A file whose footer and
\* blocks all are there but come from different writers is either rejected
\* or decoded into a frame nobody wrote.
LoadParquet(f) ==
  IF ~f.exists \/ Len(f.bytes) < MaxBlocks + 1
       \/ (\E k \in 1..Len(f.bytes) : f.bytes[k] = Hole)
    THEN {NoEntry}
  ELSE IF \A k \in 1..MaxBlocks : f.bytes[k] = f.bytes[MaxBlocks + 1]
    THEN {Entry(SubSeq(f.bytes, 1, MaxBlocks))}
  ELSE {NoEntry, Entry(SubSeq(f.bytes, 1, MaxBlocks))}

WriteNotStarted ==
  /\ parquet = NoFile
  /\ writers = [w \in Writers |-> [pc |-> "idle", off |-> 0]]
  /\ observed = NoEntry

\* ------------------------------------------------------------------ state
\* The codes a caller asks for: a local-currency product, the USD product,
\* and a code that product_info_map does not have.
RequestCodes == {"BGI", "CAF", "XYZ"}

\* No page: get_historical_prices has no URL for an unconfigured code.
NoPage == [kind |-> "none", hasPrice |-> FALSE, hasUsd |-> FALSE, rows |-> <<>>]

NoRate == [called |-> FALSE, date |-> NA, ans |-> [kind |-> "none", value |-> <<>>],
           out |-> NA, reqs |-> 0, raised |-> "none"]

NoFetch == [result |-> EmptyDF, path |-> "idle", cacheReads |-> 0,
            scrapeReqs |-> 0, rateReqs |-> 0, saved |-> FALSE,
            swallowed |-> "none", raised |-> "none"]

\* Nothing written yet.
NoPuts == <<>>

\* The empty cache directory that CepeaAPI.__init__ creates.
NoFiles == <<>>

\* The price service: one request (product, start, end) is chosen and then
\* repeated; the page's content is fixed, the PTAX endpoint and the disk
\* answer anew at every call.  The page is a historical series: it lists no
\* day after today.
Init ==
  /\ today = MaxDate
  /\ rate = NoRate
  /\ product_code \in RequestCodes
  /\ start_date \in Dates
  /\ end_date \in Dates
  /\ page \in IF product_code \in DOMAIN product_info_map THEN Pages ELSE {NoPage}
  /\ cache = NoFiles
  /\ fetch = NoFetch
  /\ puts = NoPuts
  /\ BcbNotStarted
  /\ CatalogNotStarted
  /\ WriteNotStarted
  /\ IpeaNotStarted
  /\ DashNotStarted

\* The number of rows whose date reaches _get_exchange_rate in a call (the
\* rows of an incomplete cached frame on a hit, of the cleaned scraped frame
\* on a miss): the PTAX endpoint is asked at most once per such row.
RowsToConvert(code, start, end, files, resp) ==
  LET cached == LoadFromCache(files, GetCachePath(code, start, end))
  IN IF cached.found /\ ~IsEmpty(cached.df)
       THEN IF CacheIncomplete(code, cached.df) THEN Len(cached.df.rows) ELSE 0
       ELSE Len(DropNa(ScrapeCepeaData(code, start, end, resp).df.rows, "price"))

\* Whether a call reaches _save_to_cache: the disk answers only then.
WriteOutcomes(code, start, end, files, resp) ==
  LET cached == LoadFromCache(files, GetCachePath(code, start, end))
      scraped == ScrapeCepeaData(code, start, end, resp).df
  IN IF (cached.found /\ ~IsEmpty(cached.df))
        \/ IsEmpty(scraped)
        \/ DropNa(DropNa(scraped.rows, "date"), "price") = <<>>
       THEN {TRUE}
       ELSE BOOLEAN

\* One call of get_historical_prices(product_code, start_date, end_date).
FetchPrices ==
  \E answers \in [1..RowsToConvert(product_code, start_date, end_date, cache, page)
                    -> SvcRateAnswers],
     writeOk \in WriteOutcomes(product_code, start_date, end_date, cache, page) :
    \E r \in {GetHistoricalPrices(product_code, start_date, end_date, today,
                                 cache, page, answers, writeOk)} :
       /\ cache' = r.files
       /\ fetch' = [result |-> r.result, path |-> r.path,
                    cacheReads |-> r.cacheReads, scrapeReqs |-> r.scrapeReqs,
                    rateReqs |-> r.rateReqs, saved |-> r.saved,
                    swallowed |-> r.swallowed, raised |-> r.raised]
       /\ puts' = IF r.saved
                    THEN (<<product_code, start_date, end_date>> :> r.result) @@ puts
                    ELSE puts
       /\ UNCHANGED <<today, rate, product_code, start_date, end_date, page>>
       /\ UNCHANGED bcbVars
       /\ UNCHANGED catalogVars
       /\ UNCHANGED writeVars
       /\ UNCHANGED ipeaVars
       /\ UNCHANGED dashVars

Next == FetchPrices

Spec == Init /\ [][Next]_vars

\* The exchange-rate resolver on its own: any date of the calendar or the
\* day after it, at any clock reading, against any answer of the endpoint.
RateDates == 1..(MaxDate + 1)

InitRate ==
  /\ today \in RateDates
  /\ rate = NoRate
  /\ product_code = "BGI"
  /\ start_date = 1
  /\ end_date = 1
  /\ page = NoPage
  /\ cache = NoFiles
  /\ fetch = NoFetch
  /\ puts = NoPuts
  /\ BcbNotStarted
  /\ CatalogNotStarted
  /\ WriteNotStarted
  /\ IpeaNotStarted
  /\ DashNotStarted

\* One call of _get_exchange_rate(date).
LookupRate ==
  \E date \in RateDates, ans \in RateAnswers :
    LET r == GetExchangeRate(date, today, ans)
    IN /\ rate' = [called |-> TRUE, date |-> date,
                   ans |-> IF r.reqs = 0 THEN NoRate.ans ELSE ans,
                   out |-> r.rate, reqs |-> r.reqs, raised |-> r.raised]
       /\ UNCHANGED <<today, product_code, start_date, end_date, page, cache, fetch,
                      puts>>
       /\ UNCHANGED bcbVars
       /\ UNCHANGED catalogVars
       /\ UNCHANGED writeVars
       /\ UNCHANGED ipeaVars
       /\ UNCHANGED dashVars

NextRate == LookupRate

SpecRate == InitRate /\ [][NextRate]_vars

\* The dashboard of src/app.py on the central-bank source: the sidebar's
\* selection is fixed (the script stops before main() when data_inicial is
\* after data_final), the endpoint answers anew at every GET.
InitBcb ==
  /\ today = MaxDate
  /\ rate = NoRate
  /\ product_code = "BGI"
  /\ start_date = 1
  /\ end_date = 1
  /\ page = NoPage
  /\ cache = NoFiles
  /\ fetch = NoFetch
  /\ puts = NoPuts
  /\ codigo \in BcbCodigos
  /\ data_inicial \in Dates
  /\ data_final \in Dates
  /\ data_inicial <= data_final
  /\ frames = <<>>
  /\ memo = NoMemo
  /\ log = <<>>
  /\ resposta = NoAnswer
  /\ resultado = <<>>
  /\ pc = "idle"
  /\ CatalogNotStarted
  /\ WriteNotStarted
  /\ IpeaNotStarted
  /\ DashNotStarted

NewFrame(cod, di, dfin) ==
  [codigo |-> cod, data_inicial |-> di, data_final |-> dfin, attempt |-> 0]

\* Mutation: the value returned is not kept by the lru_cache.
ReturnAll_NotMemoized(value) ==
  /\ memo' = memo
  /\ frames' = <<>>
  /\ resultado' = value
  /\ pc' = "done"

\* A return statement of the innermost call: every running call returns the
\* same frame (the outer one returns what the inner one returned) and the
\* lru_cache keeps it under the arguments of each.
ReturnAll(value) ==
  /\ memo' = [k \in {MemoKey(frames[i]) : i \in 1..Len(frames)} |-> value] @@ memo
  /\ frames' = <<>>
  /\ resultado' = value
  /\ pc' = "done"

\* main(): df = buscar_bcb(produto_info['codigo'], data_inicial, data_final),
\* through the lru_cache wrapper.
CallBcb ==
  /\ pc = "idle"
  /\ LET frame == NewFrame(codigo, data_inicial, data_final)
     IN IF MemoKey(frame) \in DOMAIN memo
          THEN /\ resultado' = memo[MemoKey(frame)]
               /\ pc' = "done"
               /\ UNCHANGED frames
          ELSE /\ frames' = <<frame>>
               /\ pc' = "attempt"
               /\ UNCHANGED resultado
  /\ UNCHANGED <<codigo, data_inicial, data_final, memo, log, resposta>>
  /\ UNCHANGED cepeaVars
  /\ UNCHANGED catalogVars
  /\ UNCHANGED writeVars
  /\ UNCHANGED ipeaVars
  /\ UNCHANGED dashVars

\* The frames gerar_dados_exemplo can hand to a pass that ends in it.
SimulatedFor(frame, resp, jsonErrIsRequestErr) ==
  IF HandleAnswer(frame.codigo, frame.attempt, resp, jsonErrIsRequestErr) = "simulate"
    THEN gerar_dados_exemplo(frame.data_inicial, frame.data_final)
    ELSE {<<>>}

\* One pass of the retry loop of the innermost call: the GET, its answer and
\* what the pass does with it.
Attempt ==
  /\ pc = "attempt"
  /\ \E resp \in BcbAnswers, jsonErrIsRequestErr \in BOOLEAN :
       LET frame == frames[Len(frames)]
           todo == HandleAnswer(frame.codigo, frame.attempt, resp, jsonErrIsRequestErr)
       IN \* the release of requests matters to a non-JSON body only
          /\ resp.kind # "badjson" => jsonErrIsRequestErr
          /\ log' = Append(log, [codigo |-> frame.codigo,
                                 dataInicial |-> frame.data_inicial,
                                 dataFinal |-> frame.data_final,
                                 notFound |-> resp.kind = "vnf404"])
          /\ resposta' = resp
          /\ \E sim \in SimulatedFor(frame, resp, jsonErrIsRequestErr) :
               CASE todo = "sleep" ->
                      /\ pc' = "sleep"
                      /\ UNCHANGED <<frames, memo, resultado>>
                 [] todo = "alternate" ->
                      LET inner == NewFrame(codigos_alternativos[frame.codigo],
                                            frame.data_inicial, frame.data_final)
                      IN IF MemoKey(inner) \in DOMAIN memo
                           THEN ReturnAll(memo[MemoKey(inner)])
                           ELSE /\ frames' = Append(frames, inner)
                                /\ pc' = "attempt"
                                /\ UNCHANGED <<memo, resultado>>
                 [] todo = "return" -> ReturnAll(ProcessarBcb(resp.dados))
                 [] todo = "simulate" -> ReturnAll(sim)
  /\ UNCHANGED <<codigo, data_inicial, data_final>>
  /\ UNCHANGED cepeaVars
  /\ UNCHANGED catalogVars
  /\ UNCHANGED writeVars
  /\ UNCHANGED ipeaVars
  /\ UNCHANGED dashVars

\* time.sleep(retry_delay), then the next pass of the loop.
Sleep ==
  /\ pc = "sleep"
  /\ frames' = [frames EXCEPT ![Len(frames)].attempt = @ + 1]
  /\ pc' = "attempt"
  /\ UNCHANGED <<codigo, data_inicial, data_final, memo, log, resposta, resultado>>
  /\ UNCHANGED cepeaVars
  /\ UNCHANGED catalogVars
  /\ UNCHANGED writeVars
  /\ UNCHANGED ipeaVars
  /\ UNCHANGED dashVars

\* The user touches a widget and the script runs again with the same
\* selection; the function's lru_cache survives or is created anew with the
\* function.
Rerun ==
  /\ pc = "done"
  /\ pc' = "idle"
  /\ memo' \in {memo, NoMemo}
  /\ log' = <<>>
  /\ resposta' = NoAnswer
  /\ resultado' = <<>>
  /\ UNCHANGED <<codigo, data_inicial, data_final, frames>>
  /\ UNCHANGED cepeaVars
  /\ UNCHANGED catalogVars
  /\ UNCHANGED writeVars
  /\ UNCHANGED ipeaVars
  /\ UNCHANGED dashVars

NextBcb == CallBcb \/ Attempt \/ Sleep \/ Rerun

SpecBcb == InitBcb /\ [][NextBcb]_vars

\* The same, with the interpreter running: a pass of the loop that has begun
\* gets its answer (requests.get has timeout=15) and a sleep ends.  The
\* period starts on day 1: the loop reads data_inicial only to build the
\* query string and to generate rows.
InitBcbLive == InitBcb /\ data_inicial = 1

SpecBcbLive ==
  InitBcbLive /\ [][NextBcb]_vars /\ WF_vars(Attempt) /\ WF_vars(Sleep)

\* A series of price requests with varying arguments against one cache
\* directory.  Every product's indicator page lists each day of the calendar
\* once, oldest first, with an R$ price.
SeriesPage ==
  [kind |-> "table", hasPrice |-> TRUE, hasUsd |-> FALSE,
   rows |-> [d \in 1..MaxDate |-> [date |-> d, price |-> 60, usd |-> NA]]]

PageOf(code) == IF code \in DOMAIN product_info_map THEN SeriesPage ELSE NoPage

\* The requests of the series: two products and an unknown code, one day,
\* the whole calendar, its first and last part, and a period that ends
\* before it starts.
KeyRequests ==
  ({"BGI"} \X {<<1, 1>>, <<1, MaxDate>>, <<MaxDate, MaxDate>>,
               <<1, MaxDate - 1>>, <<2, MaxDate>>, <<MaxDate, 1>>})
    \cup ({"CAF"} \X {<<1, 1>>, <<1, MaxDate>>})
    \cup ({"XYZ"} \X {<<1, 1>>})

\* The PTAX endpoint works throughout the series and quotes 4 for every day.
KeyRateAnswers == {[kind |-> "json", value |-> <<4>>]}

InitKeys ==
  /\ today = MaxDate
  /\ rate = NoRate
  /\ product_code = "BGI"
  /\ start_date = 1
  /\ end_date = 1
  /\ page = NoPage
  /\ cache = NoFiles
  /\ fetch = NoFetch
  /\ puts = NoPuts
  /\ BcbNotStarted
  /\ CatalogNotStarted
  /\ WriteNotStarted
  /\ IpeaNotStarted
  /\ DashNotStarted

\* One call of get_historical_prices with any arguments.
FetchAny ==
  \E req \in KeyRequests :
    LET code == req[1]
        start == req[2][1]
        end == req[2][2]
    IN
    \E answers \in [1..RowsToConvert(code, start, end, cache, PageOf(code))
                      -> KeyRateAnswers],
       writeOk \in WriteOutcomes(code, start, end, cache, PageOf(code)) :
      LET r == GetHistoricalPrices(code, start, end, today, cache, PageOf(code),
                                   answers, writeOk)
      IN /\ product_code' = code
         /\ start_date' = start
         /\ end_date' = end
         /\ page' = PageOf(code)
         /\ cache' = r.files
         /\ fetch' = [result |-> r.result, path |-> r.path,
                      cacheReads |-> r.cacheReads, scrapeReqs |-> r.scrapeReqs,
                      rateReqs |-> r.rateReqs, saved |-> r.saved,
                      swallowed |-> r.swallowed, raised |-> r.raised]
         /\ puts' = IF r.saved THEN (<<code, start, end>> :> r.result) @@ puts
                               ELSE puts
         /\ UNCHANGED <<today, rate>>
         /\ UNCHANGED bcbVars
         /\ UNCHANGED catalogVars
         /\ UNCHANGED writeVars
         /\ UNCHANGED ipeaVars
         /\ UNCHANGED dashVars

NextKeys == FetchAny

SpecKeys == InitKeys /\ [][NextKeys]_vars

\* The catalog on its own.  The store on disk at start-up is what an earlier
\* deployment left: nothing, a damaged file, the current list, the list of a
\* shorter product table, or an empty list.
MaxCalls == 4

InitialStores ==
  {AbsentStore, CorruptStore, StoredList(BuildProductsList),
   StoredList(SubSeq(BuildProductsList, 1, 3)), StoredList(<<>>)}

InitCatalog ==
  /\ today = MaxDate
  /\ rate = NoRate
  /\ product_code = "BGI"
  /\ start_date = 1
  /\ end_date = 1
  /\ page = NoPage
  /\ cache = NoFiles
  /\ fetch = NoFetch
  /\ puts = NoPuts
  /\ BcbNotStarted
  /\ products_cache \in InitialStores
  /\ calls = <<>>
  /\ WriteNotStarted
  /\ IpeaNotStarted
  /\ DashNotStarted

\* One call of get_available_products().
ListProducts ==
  /\ Len(calls) < MaxCalls
  /\ \E readOk \in BOOLEAN, written \in WriteResults :
       LET r == GetAvailableProducts(products_cache, readOk, written)
       IN /\ products_cache.state = "absent" => readOk
          /\ products_cache.state # "absent" => written = "ok"
          /\ products_cache' = r.store
          /\ calls' = Append(calls, [ret |-> r.ret, found |-> r.found,
                                     wrote |-> r.wrote, failed |-> r.failed])
  /\ UNCHANGED cepeaVars
  /\ UNCHANGED bcbVars
  /\ UNCHANGED writeVars
  /\ UNCHANGED ipeaVars
  /\ UNCHANGED dashVars

NextCatalog == ListProducts

SpecCatalog == InitCatalog /\ [][NextCatalog]_vars

\* Overlapping calls on one cache file.
InitWrite ==
  /\ today = MaxDate
  /\ rate = NoRate
  /\ product_code = "BGI"
  /\ start_date = 1
  /\ end_date = 1
  /\ page = NoPage
  /\ cache = NoFiles
  /\ fetch = NoFetch
  /\ puts = NoPuts
  /\ BcbNotStarted
  /\ CatalogNotStarted
  /\ WriteNotStarted
  /\ IpeaNotStarted
  /\ DashNotStarted

\* to_parquet opens the path for writing: the file is created or truncated.
OpenForWrite(w) ==
  /\ writers[w].pc = "idle"
  /\ writers' = [writers EXCEPT ![w] = [pc |-> "writing", off |-> 0]]
  /\ parquet' = [exists |-> TRUE, bytes |-> <<>>]
  /\ UNCHANGED observed

\* The writer's next data block goes to the writer's own offset.
WriteBlock(w) ==
  /\ writers[w].pc = "writing"
  /\ writers[w].off < MaxBlocks
  /\ parquet' = [parquet EXCEPT !.bytes = WriteAt(@, writers[w].off, w)]
  /\ writers' = [writers EXCEPT ![w].off = @ + 1]
  /\ UNCHANGED observed

\* The footer ends the write; _save_to_cache returns.
WriteFooter(w) ==
  /\ writers[w].pc = "writing"
  /\ writers[w].off = MaxBlocks
  /\ parquet' = [parquet EXCEPT !.bytes = WriteAt(@, MaxBlocks, w)]
  /\ writers' = [writers EXCEPT ![w].pc = "done"]
  /\ UNCHANGED observed

\* The write raises part-way; _save_to_cache prints and returns, the file
\* stays as it is.
FailWrite(w) ==
  /\ writers[w].pc = "writing"
  /\ writers' = [writers EXCEPT ![w].pc = "failed"]
  /\ UNCHANGED <<parquet, observed>>

\* _load_from_cache by any call.
Get ==
  /\ observed' \in LoadParquet(parquet)
  /\ UNCHANGED <<parquet, writers>>

NextWrite ==
  /\ \/ \E w \in Writers : OpenForWrite(w)
     \/ \E w \in Writers : WriteBlock(w)
     \/ \E w \in Writers : WriteFooter(w)
     \/ \E w \in Writers : FailWrite(w)
     \/ Get
  /\ UNCHANGED <<cepeaVars, bcbVars, catalogVars, ipeaVars, dashVars>>

SpecWrite == InitWrite /\ [][NextWrite]_vars

\* The dashboard on the IPEAData source: a period of the sidebar, then calls
\* of buscar_ipeadata against whatever the endpoint answers.
InitIpea ==
  /\ today = MaxDate
  /\ rate = NoRate
  /\ product_code = "BGI"
  /\ start_date = 1
  /\ end_date = 1
  /\ page = NoPage
  /\ cache = NoFiles
  /\ fetch = NoFetch
  /\ puts = NoPuts
  /\ codigo = "7461"
  /\ data_inicial \in Dates
  /\ data_final \in Dates
  /\ data_inicial <= data_final
  /\ frames = <<>>
  /\ memo = NoMemo
  /\ log = <<>>
  /\ resposta = NoAnswer
  /\ resultado = <<>>
  /\ pc = "idle"
  /\ CatalogNotStarted
  /\ WriteNotStarted
  /\ IpeaNotStarted
  /\ DashNotStarted

\* main() calls buscar_ipeadata(codigo, data_inicial, data_final) once in a
\* run of the script.
CallIpeadata ==
  /\ ~ipea.called
  /\ \E resp \in IpeaAnswers :
       \E out \in BuscarIpeadata(resp, data_inicial, data_final, today) :
         ipea' = [called |-> TRUE, resp |-> resp, df |-> out.df,
                  simulated |-> out.simulated]
  /\ UNCHANGED cepeaVars
  /\ UNCHANGED bcbVars
  /\ UNCHANGED catalogVars
  /\ UNCHANGED writeVars
  /\ UNCHANGED dashVars

NextIpea == CallIpeadata

SpecIpea == InitIpea /\ [][NextIpea]_vars

\* The price service started on a cache directory that already holds a file
\* under the request's name which is of no use: a file pd.read_parquet
\* rejects (a write that stopped part-way), or the parquet file of a frame
\* without rows.
UnreadableFile == [readable |-> FALSE, df |-> EmptyDF]

UselessFiles ==
  {UnreadableFile, CacheFile(EmptyDF),
   CacheFile([cols |-> {"date", "price", "product"}, rows |-> <<>>])}

InitStale ==
  /\ today = MaxDate
  /\ rate = NoRate
  /\ product_code \in {"BGI", "CAF"}
  /\ start_date = 1
  /\ end_date = MaxDate
  /\ page \in Pages
  /\ cache \in {GetCachePath(product_code, start_date, end_date) :> f :
                  f \in UselessFiles}
  /\ fetch = NoFetch
  /\ puts = NoPuts
  /\ BcbNotStarted
  /\ CatalogNotStarted
  /\ WriteNotStarted
  /\ IpeaNotStarted
  /\ DashNotStarted

SpecStale == InitStale /\ [][Next]_vars

\* main() of src/main.py: the selection of the sidebar, in the order the
\* user made it, and the period (the first day, or one that ends before it
\* starts).
MaxSelected == 3

RECURSIVE Selections(_)
Selections(n) ==
  IF n = 0 THEN {<<>>}
  ELSE Selections(n - 1)
         \cup {Append(s, name) :
                 s \in {t \in Selections(n - 1) : Len(t) = n - 1},
                 name \in ProductNames}

InitDash ==
  /\ today = MaxDate
  /\ rate = NoRate
  /\ product_code = "BGI"
  /\ start_date \in Dates
  /\ end_date = 1
  /\ page = NoPage
  /\ cache = NoFiles
  /\ fetch = NoFetch
  /\ puts = NoPuts
  /\ BcbNotStarted
  /\ CatalogNotStarted
  /\ WriteNotStarted
  /\ IpeaNotStarted
  /\ selected \in {s \in Selections(MaxSelected) :
                     \A i \in 1..Len(s), j \in 1..Len(s) : i # j => s[i] # s[j]}
  /\ fetched = <<>>
  /\ dfs = <<>>
  /\ stage = "start"

\* Lines 198-204: nothing selected, or a period that ends before it starts,
\* ends the run before any fetch.
CheckFilters ==
  /\ stage = "start"
  /\ stage' = IF selected = <<>> THEN "info"
              ELSE IF start_date > end_date THEN "bad_period"
              ELSE "loop"
  /\ UNCHANGED <<selected, fetched, dfs>>
  /\ UNCHANGED <<cepeaVars, bcbVars, catalogVars, writeVars, ipeaVars>>

\* Lines 210-220: one pass of the loop over selected_product_names.
FetchNext ==
  /\ stage = "loop"
  /\ Len(fetched) < Len(selected)
  /\ LET product_name == selected[Len(fetched) + 1]
         product_info == InfoOf(product_name)
     IN IF product_info.code = "None"
          THEN /\ fetched' = Append(fetched, [name |-> product_name,
                                               code |-> "None",
                                               outcome |-> "no_info"])
               /\ UNCHANGED <<dfs, stage>>
          ELSE \E outcome \in FetchOutcomes :
                 LET df == GetProcessedDataSafe(outcome)
                 IN /\ fetched' = Append(fetched, [name |-> product_name,
                                                    code |-> product_info.code,
                                                    outcome |-> outcome])
                    /\ IF df.raised # "none"
                         THEN stage' = "crashed" /\ UNCHANGED dfs
                       ELSE IF ~df.empty
                         THEN dfs' = Append(dfs, product_name) /\ UNCHANGED stage
                       ELSE UNCHANGED <<dfs, stage>>
  /\ UNCHANGED selected
  /\ UNCHANGED <<cepeaVars, bcbVars, catalogVars, writeVars, ipeaVars>>

\* Lines 222-226: after the loop, no frame ends the run with an error, and
\* any frame goes on to the presentation.
EndLoop ==
  /\ stage = "loop"
  /\ Len(fetched) = Len(selected)
  /\ stage' = IF dfs = <<>> THEN "nodata" ELSE "render"
  /\ UNCHANGED <<selected, fetched, dfs>>
  /\ UNCHANGED <<cepeaVars, bcbVars, catalogVars, writeVars, ipeaVars>>

NextDash == CheckFilters \/ FetchNext \/ EndLoop

SpecDash == InitDash /\ [][NextDash]_vars

\* ================================================================= claims

\* A page row whose date and whose R$ price both parse.
Parseable(r) == r.date \in Dates /\ r.price \in PriceVals

\* The source fetch fails: the request fails, no table is found, or the table
\* holds no row that parses (a table without an R$ column included).
SourceFails ==
  page.kind # "table" \/ \A i \in 1..Len(page.rows) : ~Parseable(page.rows[i])

\* C1: whenever the source fetch fails (network error, non-2xx status, no
\* table, zero parseable rows, an exception inside the scraper),
\* get_historical_prices returns an empty frame and raises nothing.
C1_FailedFetchGivesEmpty ==
  (fetch.path = "miss" /\ SourceFails)
    => (IsEmpty(fetch.result) /\ fetch.raised = "none")

C1_Witness ==
  /\ fetch.path = "miss"
  /\ page.kind = "neterr"
  /\ fetch.scrapeReqs = 1
  /\ fetch.swallowed = "request"

StrictlyAscending(rows) ==
  \A i \in 1..(Len(rows) - 1) : rows[i].date < rows[i + 1].date

\* C2: for start <= end, the frame returned by get_historical_prices (on the
\* miss path and on the hit path) is sorted strictly ascending by date, with
\* no date twice.
C2_SortedStrictlyAscending ==
  (fetch.path # "idle" /\ start_date <= end_date)
    => StrictlyAscending(fetch.result.rows)

Abs(x) == IF x < 0 THEN 0 - x ELSE x

\* a and b differ by at most 0.01 of a.
WithinTolerance(a, b) == 100 * Abs(a - b) <= Abs(a)

\* C3: every returned row has a non-null local price; for a product quoted in
\* USD it also has a non-null price_usd and a recorded exchange rate with
\* price = price_usd * exchange_rate within 0.01 relative tolerance.
C3_PricesPresentAndConsistent ==
  \A i \in 1..Len(fetch.result.rows) :
    LET r == fetch.result.rows[i]
    IN /\ r.price # NA
       /\ CurrencyOf(product_code) = "USD"
            => /\ r.price_usd # NA
               /\ r.exchange_rate # NA
               /\ WithinTolerance(r.price, r.price_usd * r.exchange_rate)

\* C4: when a cache entry exists, two consecutive calls with the same
\* arguments return identical frames, whatever the PTAX endpoint answers.
C4_HitIsIdempotent ==
  [][(fetch.path = "hit" /\ fetch'.path = "hit")
       => fetch'.result = fetch.result]_vars

\* C5: a request with end_date < start_date fails with InvalidRange and makes
\* no network call and no cache access.
C5_InvalidRangeRejected ==
  (fetch.path # "idle" /\ end_date < start_date)
    => /\ fetch.raised = "InvalidRange"
       /\ fetch.scrapeReqs = 0
       /\ fetch.rateReqs = 0
       /\ fetch.cacheReads = 0

\* C6: a request for a code that the product table does not have fails with
\* UnknownProduct, whatever the range and the cache.
C6_UnknownProductRejected ==
  (fetch.path # "idle" /\ product_code \notin DOMAIN product_info_map)
    => fetch.raised = "UnknownProduct"

\* C7: for a date strictly after the current date, _get_exchange_rate returns
\* the fallback 5.0 and issues no HTTP request.
C7_FutureDateNoRequest ==
  (rate.called /\ rate.date > today) => (rate.out = 5 /\ rate.reqs = 0)

C7_Witness == rate.called /\ rate.date > today /\ rate.out = 5

\* The endpoint's answer carries a buy quote in its first record.
RateSuccess(ans) ==
  ans.kind = "json" /\ Len(ans.value) > 0 /\ ans.value[1] \in Quotes

\* C8: for a date that is not in the future, _get_exchange_rate raises
\* nothing and asks the endpoint exactly once; it returns the first record's
\* buy quote when there is one, and the fallback 5.0 on every failure.
C8_RateNeverRaises ==
  (rate.called /\ rate.date <= today)
    => /\ rate.raised = "none"
       /\ rate.reqs = 1
       /\ RateSuccess(rate.ans) => rate.out = rate.ans.value[1]
       /\ ~RateSuccess(rate.ans) => rate.out = 5

C8_Witness ==
  /\ rate.called
  /\ rate.date <= today
  /\ rate.ans.kind = "json"
  /\ rate.ans.value = <<6, 4>>
  /\ rate.out = 6

\* The page's well-formed rows inside the requested period, in page order.
WellFormedInPeriod ==
  LET Ok(r) == Parseable(r) /\ r.date >= start_date /\ r.date <= end_date
  IN SelectSeq(page.rows, Ok)

AlternateSucceeds ==
  /\ resposta.kind = "json200"
  /\ \A i \in 1..Len(resposta.dados) : resposta.dados[i].data \in Dates
  /\ \E i \in 1..Len(resposta.dados) : resposta.dados[i].valor \in SeriesVals

\* Series "7461" was answered 404 "Value(s) not found" in this run.
NotFound7461 ==
  \E i \in 1..Len(log) : log[i].codigo = "7461" /\ log[i].notFound

\* C10: after a 404 "Value(s) not found" for series "7461" the next request
\* of buscar_bcb is for series "7811" with the same dataInicial and
\* dataFinal (it is the next thing the call does when it has not been sent
\* yet), and when the call ends on a successful answer for "7811" the
\* frame returned is that answer's rows as buscar_bcb processes them:
\* numeric valor only, ascending by date.
C10_AlternateSeriesOnNotFound ==
  /\ \A i \in 1..Len(log) :
       (log[i].codigo = "7461" /\ log[i].notFound) =>
         IF i < Len(log)
           THEN /\ log[i + 1].codigo = "7811"
                /\ log[i + 1].dataInicial = data_inicial
                /\ log[i + 1].dataFinal = data_final
           ELSE /\ pc = "attempt"
                /\ frames # <<>>
                /\ frames[Len(frames)] = NewFrame("7811", data_inicial, data_final)
  /\ (pc = "done" /\ NotFound7461 /\ log[Len(log)].codigo = "7811"
        /\ AlternateSucceeds)
       => resultado = ProcessarBcb(resposta.dados)

\* The alternate series answered with a row to drop and rows out of order,
\* after a failed first try, and its two good rows came back sorted.
C10_Witness ==
  /\ pc = "done"
  /\ codigo = "7461"
  /\ NotFound7461
  /\ Len(log) >= 3
  /\ log[Len(log)].codigo = "7811"
  /\ log[Len(log) - 1].codigo = "7811"
  /\ AlternateSucceeds
  /\ Len(resposta.dados) = MaxRows
  /\ resposta.dados[1].data > resposta.dados[MaxRows].data
  /\ resultado = ProcessarBcb(resposta.dados)
  /\ Len(resultado) = MaxRows
  /\ resultado[1].data < resultado[MaxRows].data

\* The top of the call stack of buscar_bcb.
TopFrame == frames[Len(frames)]

\* The GETs sent for a series in this run.
RequestsFor(cod) == Cardinality({i \in 1..Len(log) : log[i].codigo = cod})

\* C11: within one call buscar_bcb sends at most 3 GETs for a series code, a
\* time.sleep separates consecutive GETs for the same code (the n-th pass of
\* the loop starts after n - 1 requests), a further GET follows only when
\* the previous one ended in a network error (no answer), and the third
\* failure ends the call.
C11_BoundedRetryOnNetworkErrorOnly ==
  /\ \A i \in 1..Len(log) : RequestsFor(log[i].codigo) <= max_retries
  /\ (pc = "attempt" /\ frames # <<>>)
       => RequestsFor(TopFrame.codigo) = TopFrame.attempt
  /\ pc = "sleep" => /\ TopFrame.attempt < max_retries - 1
                     /\ resposta.kind = "neterr"

\* The parts of C11 that do not depend on what kind of failure is retried.
BoundedRetryWithBackoff ==
  /\ \A i \in 1..Len(log) : RequestsFor(log[i].codigo) <= max_retries
  /\ (pc = "attempt" /\ frames # <<>>)
       => RequestsFor(TopFrame.codigo) = TopFrame.attempt
  /\ pc = "sleep" => TopFrame.attempt < max_retries - 1

\* C12: an HTTP error status with a body (404, 500) is not retried: once the
\* endpoint has answered so, buscar_bcb does not go on to sleep and ask for
\* the same series again.
C12_ErrorResponseNotRetried ==
  resposta.kind \in {"vnf404", "other404", "http500"} => pc # "sleep"

\* The central-bank source failed on the last GET of the call: no answer, an
\* error status, a body that is no JSON, an empty list, or no record with a
\* number.
LiveSourceFailed ==
  \/ resposta.kind \in {"neterr", "other404", "http500", "badjson"}
  \/ /\ resposta.kind = "json200"
     /\ \A i \in 1..Len(resposta.dados) : resposta.dados[i].valor = BadCell

\* C13: when the live source fails, the fetcher returns an empty frame, never
\* generated rows.
C13_NoSyntheticRowsOnFailure ==
  (pc = "done" /\ log # <<>> /\ LiveSourceFailed) => resultado = <<>>

\* The cache entry of the request under study, as _load_from_cache sees it.
EntryOfRequest ==
  LoadFromCache(cache, GetCachePath(product_code, start_date, end_date))

\* C14: a call that finds a readable, non-empty entry under the file name of
\* (product_code, start_date, end_date) sends no request to the indicator
\* page, and only such a call is served from the cache.
C14_HitDoesNotScrape ==
  fetch.path = "hit"
    => /\ fetch.scrapeReqs = 0
       /\ EntryOfRequest.found
       /\ ~IsEmpty(EntryOfRequest.df)

\* A hit while the page would have answered with a table.
C14_Witness ==
  /\ fetch.path = "hit"
  /\ page.kind = "table"
  /\ fetch.scrapeReqs = 0
  /\ fetch.cacheReads = 1
  /\ Len(fetch.result.rows) = MaxRows

\* What the call returns when the same fetch can write its cache entry.
ResultsWhenWritten ==
  {GetHistoricalPrices(product_code, start_date, end_date, today, cache, page,
                       answers, TRUE).result :
     answers \in [1..RowsToConvert(product_code, start_date, end_date, cache, page)
                    -> SvcRateAnswers]}

\* C16: when the write of the cache entry fails, get_historical_prices raises
\* nothing and returns the frame it would return with a working disk; no
\* usable entry is left, and the next call with the same arguments takes the
\* miss path again.
C16_WriteFailureIsSwallowed ==
  /\ [](fetch.swallowed = "write"
         => /\ fetch.raised = "none"
            /\ fetch.result \in ResultsWhenWritten
            /\ ~(EntryOfRequest.found /\ ~IsEmpty(EntryOfRequest.df)))
  /\ [][fetch.swallowed = "write" => fetch'.path = "miss"]_vars

\* A failed write after a two-row fetch with derived USD prices.
C16_Witness ==
  /\ fetch.swallowed = "write"
  /\ ~fetch.saved
  /\ product_code = "BGI"
  /\ Len(fetch.result.rows) = MaxRows
  /\ fetch.result.rows[1].price_usd # NA
  /\ cache = NoFiles

\* C20: the frame of a miss that wrote its entry and the frame of the next
\* call with the same arguments, served from that entry, are equal: the same
\* columns, the same rows, the same value in every field.
C20_MissThenHitRoundTrip ==
  [][(fetch'.path = "hit" /\ fetch.path = "miss") => fetch'.result = fetch.result]_vars

\* The arguments a caller can pass.
RequestTriples == RequestCodes \X Dates \X Dates

PathOf(t) == GetCachePath(t[1], t[2], t[3])

\* The columns every frame has.
BaseRows(df) ==
  [i \in 1..Len(df.rows) |-> [date |-> df.rows[i].date, price |-> df.rows[i].price]]

\* C15: a call is served from the cache only when an entry was written for
\* its own (product_code, start_date, end_date), and what it is served is
\* that entry; every triple written has its own file, which holds what was
\* written for that triple, and no two triples have the same file name.
C15_ExactKeyLookup ==
  /\ fetch.path = "hit"
       => /\ <<product_code, start_date, end_date>> \in DOMAIN puts
          /\ EntryOfRequest.df = puts[<<product_code, start_date, end_date>>]
          /\ BaseRows(fetch.result) = BaseRows(EntryOfRequest.df)
          /\ \A i \in 1..Len(fetch.result.rows) :
               /\ fetch.result.rows[i].date >= start_date
               /\ fetch.result.rows[i].date <= end_date
  /\ \A t \in DOMAIN puts :
       /\ LoadFromCache(cache, PathOf(t)).found
       /\ LoadFromCache(cache, PathOf(t)).df = puts[t]
  /\ Cardinality(DOMAIN cache) = Cardinality(DOMAIN puts)
  /\ \A t1 \in RequestTriples, t2 \in RequestTriples :
       t1 # t2 => PathOf(t1) # PathOf(t2)

\* A one-day request served from its own entry while the cache also holds
\* the same product's longer period, an overlapping period and another
\* product's entry for the same day.
C15_Witness ==
  /\ fetch.path = "hit"
  /\ product_code = "BGI" /\ start_date = 1 /\ end_date = 1
  /\ Len(fetch.result.rows) = 1
  /\ {<<"BGI", 1, 1>>, <<"BGI", 1, MaxDate>>, <<"BGI", MaxDate, MaxDate>>,
      <<"CAF", 1, 1>>} \subseteq DOMAIN puts
  /\ Len(puts[<<"BGI", 1, MaxDate>>].rows) = MaxDate

\* The listing began with no store on disk, and no read or write of the
\* store has failed since.
StartedWithEmptyStore == calls # <<>> /\ ~calls[1].found
NoStoreFailure == \A i \in 1..Len(calls) : ~calls[i].failed

StoreWrites == Cardinality({i \in 1..Len(calls) : calls[i].wrote})

C18_CorruptStoreFallsBackToTable ==
  \A i \in 1..Len(calls) :
    (calls[i].found /\ calls[i].failed /\ DOMAIN product_info_map # {})
      => calls[i].ret = BuildProductsList

\* C19: every _load_from_cache of a file that calls are writing gets no
\* entry or the complete frame of one writer, and once the writers are
\* through the file holds exactly one writer's frame and footer.
C19_AtomicCacheWrites ==
  /\ observed \in {NoEntry} \cup {Entry(Payload(w)) : w \in Writers}
  /\ (\A w \in Writers : writers[w].pc = "done")
       => \E w \in Writers :
            parquet = [exists |-> TRUE, bytes |-> Payload(w) \o <<w>>]

\* C21: on a cache hit for a product whose native currency is USD, no
\* returned row lacks price_usd: a cached row without it gets it from the
\* exchange rate of its date, also when other rows of the entry have it.
C21_HitRepairsEveryUsdGap ==
  (fetch.path = "hit" /\ CurrencyOf(product_code) = "USD")
    => \A i \in 1..Len(fetch.result.rows) :
         fetch.result.rows[i].price_usd # NA

\* The page's rows inside the period whose date and whose US$ amount parse.
UsdRowsInPeriod ==
  LET Ok(r) == /\ r.date \in Dates /\ r.usd \in UsdVals
               /\ r.date >= start_date /\ r.date <= end_date
  IN SelectSeq(page.rows, Ok)

\* C22: on a miss the missing currency leg is computed row by row and the
\* row is kept: for a local-currency product every returned row has a
\* price_usd (scraped, or price / rate); for a USD product every row of the
\* page with a date in the period and a US$ amount is returned with a local
\* price (scraped, or price_usd * rate), also when the page has no R$
\* column at all.
C22_MissingLegComputedPerRow ==
  (fetch.path = "miss" /\ page.kind = "table")
    => /\ CurrencyOf(product_code) = "BRL"
            => \A i \in 1..Len(fetch.result.rows) :
                 LET r == fetch.result.rows[i]
                 IN /\ r.price # NA
                    /\ r.price_usd # NA
       /\ CurrencyOf(product_code) = "USD"
            => /\ Len(fetch.result.rows) >= Len(UsdRowsInPeriod)
               /\ \A i \in 1..Len(fetch.result.rows) :
                    fetch.result.rows[i].price # NA

\* C23: buscar_bcb, like the other fetchers, returns only rows dated inside
\* [data_inicial, data_final], whatever records the answer holds.
C23_OnlyRowsInsidePeriod ==
  pc = "done"
    => \A i \in 1..Len(resultado) :
         /\ resultado[i].data >= data_inicial
         /\ resultado[i].data <= data_final

\* C24: when the page lists a date more than once, the frame returned by the
\* fetch that scraped it holds one row for that date (the last one listed).
C24_OneRowPerDate ==
  fetch.path = "miss"
    => \A i \in 1..Len(fetch.result.rows), j \in 1..Len(fetch.result.rows) :
         i # j => fetch.result.rows[i].date # fetch.result.rows[j].date

\* C25: buscar_bcb substitutes the alternate series at most once per
\* top-level call (the alternate has no alternate of its own), sends at most
\* max_retries GETs for the series and max_retries for its alternate, and a
\* call that has begun ends with a table returned: rows of the endpoint or
\* generated rows, never nothing.
C25_SubstitutionAtMostOnce ==
  /\ [](/\ Len(frames) <= 2
        /\ Len(frames) = 2
             => /\ frames[1].codigo \in DOMAIN codigos_alternativos
                /\ frames[2].codigo = codigos_alternativos[frames[1].codigo]
                /\ frames[2].codigo \notin DOMAIN codigos_alternativos
        /\ Len(log) <= 2 * max_retries
        /\ pc = "done" => resultado # <<>>)
  /\ (pc = "attempt" ~> pc = "done")

\* A call that used every request it can: two failures and a "not found" for
\* the series, three failures for the alternate.
C25_Witness ==
  /\ pc = "done"
  /\ Len(log) = 2 * max_retries
  /\ log[max_retries].codigo = "7461" /\ log[max_retries].notFound
  /\ log[2 * max_retries].codigo = "7811"
  /\ resultado # <<>>

\* C26: a fetch that returns an empty result creates or changes no cache
\* entry, and the next call with the same arguments goes to the source
\* again; the directory changes only when a fetch that went to the source
\* returns at least one row, and then it is the entry of that fetch's
\* (product_code, start_date, end_date) that is written, with the frame
\* returned.  Every entry holds at least one row.
C26_EmptyFetchLeavesCacheAlone ==
  /\ [](\A f \in DOMAIN cache : ~IsEmpty(cache[f].df))
  /\ [][/\ IsEmpty(fetch'.result) => cache' = cache
        /\ (fetch.path # "idle" /\ IsEmpty(fetch.result))
             => fetch'.path = "miss"
        /\ cache' # cache
             => /\ fetch'.path = "miss"
                /\ ~IsEmpty(fetch'.result)
                /\ DOMAIN cache' =
                     DOMAIN cache
                       \cup {GetCachePath(product_code, start_date, end_date)}
                /\ cache'[GetCachePath(product_code, start_date, end_date)].df
                     = fetch'.result]_vars

\* A table whose only row in the period has no R$ value: the row is dropped
\* after the scraper, the conversion raises, nothing is returned and nothing
\* is written.
C26_Witness ==
  /\ fetch.path = "miss"
  /\ page.kind = "table"
  /\ fetch.scrapeReqs = 1
  /\ fetch.swallowed = "TypeError"
  /\ IsEmpty(fetch.result)
  /\ cache = NoFiles

\* The series answered has rows with a number, none of them inside the
\* requested period and at least one in the last 30 days.
OnlyRecentRowsOutsidePeriod ==
  /\ ipea.called
  /\ ipea.resp.kind = "json"
  /\ \A i \in 1..Len(ipea.resp.dados) : ipea.resp.dados[i].data # BadCell
  /\ IpeaInPeriod(IpeaRows(ipea.resp.dados), data_inicial, data_final) = <<>>
  /\ IpeaRecent(IpeaRows(ipea.resp.dados), today) # <<>>

\* C27: when the series has rows and none falls in the requested period,
\* buscar_ipeadata returns the series' rows of the last 30 days if there
\* are any, and fails only when there are none either.
C27_FallsBackToLastThirtyDays ==
  OnlyRecentRowsOutsidePeriod
    => /\ ~ipea.simulated
       /\ ipea.df = SortValues(IpeaRecent(IpeaRows(ipea.resp.dados), today))

\* The file of the request exists and is of no use: it cannot be read, or
\* the frame it holds has no rows.
UselessEntry ==
  /\ GetCachePath(product_code, start_date, end_date) \in DOMAIN cache
  /\ ~EntryOfRequest.found \/ IsEmpty(EntryOfRequest.df)

\* What the call returns on an empty cache directory, for given answers of
\* the exchange-rate service and a given outcome of the cache write.
ResultWithoutCache(answers, writeOk) ==
  GetHistoricalPrices(product_code, start_date, end_date, today, NoFiles, page,
                      answers, writeOk).result

\* C28: a cache file that exists but cannot be read, and a readable entry
\* without rows, are a miss: the call raises nothing, reads the file once,
\* goes to the indicator page and returns what it would return with no
\* file there, never the entry.
C28_UselessEntryIsAMiss ==
  [][UselessEntry
       => /\ fetch'.path = "miss"
          /\ fetch'.raised = "none"
          /\ fetch'.cacheReads = 1
          /\ fetch'.scrapeReqs = 1
          /\ \E writeOk \in BOOLEAN :
               \E answers \in [1..RowsToConvert(product_code, start_date,
                                                end_date, NoFiles, page)
                                 -> SvcRateAnswers] :
                 fetch'.result = ResultWithoutCache(answers, writeOk)]_vars

\* A fetch that returned rows while the unreadable file is still there (the
\* write of the new entry failed).
C28_Witness ==
  /\ fetch.path = "miss"
  /\ GetCachePath(product_code, start_date, end_date) \in DOMAIN cache
  /\ ~cache[GetCachePath(product_code, start_date, end_date)].readable
  /\ fetch.swallowed = "write"
  /\ Len(fetch.result.rows) = MaxRows

\* The arguments of the dashboard's call.
SelectionKey == <<codigo, data_inicial, data_final>>

\* C29: the lru_cache keeps whatever a call returned, the generated table
\* of a failure included; while the entry is there, a later call with the
\* same arguments sends no request and returns that table, whatever the
\* endpoint would answer now.
C29_MemoKeepsFirstResult ==
  /\ [](pc = "done"
         => /\ SelectionKey \in DOMAIN memo
            /\ memo[SelectionKey] = resultado)
  /\ [][(pc = "idle" /\ SelectionKey \in DOMAIN memo)
         => /\ pc' = "done"
            /\ resultado' = memo[SelectionKey]
            /\ log' = <<>>
            /\ memo' = memo]_vars

\* A run served from the lru_cache with a generated table: no request was
\* sent in it.
C29_Witness ==
  /\ pc = "done"
  /\ log = <<>>
  /\ SelectionKey \in DOMAIN memo
  /\ resultado = memo[SelectionKey]
  /\ resultado # <<>>
  /\ resultado[1].preco \in SimPrices

\* The selected products whose fetch returned a frame with rows, in
\* selection order.
RECURSIVE WithRows(_)
WithRows(calls_) ==
  IF calls_ = <<>> THEN <<>>
  ELSE IF calls_[1].outcome = "rows"
    THEN <<calls_[1].name>> \o WithRows(Tail(calls_))
    ELSE WithRows(Tail(calls_))

\* C30: main() fetches the selected products one after another in selection
\* order; an empty or failed fetch stops nothing, so by the end of the loop
\* every selected product has been fetched once; the products kept for
\* presentation are exactly those whose fetch returned rows, in selection
\* order, and the presentation is left out only when there is none.
C30_LoopSkipsOnlyEmptyProducts ==
  /\ stage # "crashed"
  /\ Len(fetched) <= Len(selected)
  /\ \A i \in 1..Len(fetched) : fetched[i].name = selected[i]
  /\ dfs = WithRows(fetched)
  /\ stage \in {"render", "nodata"} => Len(fetched) = Len(selected)
  /\ stage = "render" => dfs # <<>>
  /\ stage = "nodata" => dfs = <<>>

\* Three products selected; the first fetch raised, the second came back
\* empty, the third had rows and is presented.
C30_Witness ==
  /\ stage = "render"
  /\ Len(selected) = 3
  /\ fetched[1].outcome = "raises"
  /\ fetched[2].outcome = "raw_empty"
  /\ fetched[3].outcome = "rows"
  /\ dfs = <<selected[3]>>

====
